---- MODULE Spec2Model ----
(***************************************************************************)
(* Block-level deduplicating backup and restore (davissp14/block-diff).   *)
(* The model follows backup.go (NewBackup, Backup.Run, writeBlocks,       *)
(* insertBlockPositionsTransaction), restore.go (NewRestore, Restore.Run, *)
(* restoreFromBackup, readBlock) and the SQLite store (store.go).         *)
(***************************************************************************)
EXTENDS Integers, Sequences, FiniteSets, TLC

(* ---------------------------------------------------------------------- *)
(* Bounds of the model                                                    *)
(* ---------------------------------------------------------------------- *)
\* Largest source size in bytes.
MaxSourceSize == 3
\* Largest BackupConfig.BlockSize.
MaxBlockSize == 2
\* Largest BackupConfig.BlockBufferSize.
MaxBlockBufferSize == 3
\* Number of backups created over a behaviour.
MaxBackups == 3
\* Number of backups created over a behaviour with overlapping runs.
MaxConcurrentBackups == 2
\* Number of volumes (device basenames).
NumVolumes == 2
\* Number of directories a device of a given basename can be found in.
NumDirs == 2
\* Number of backups created over a behaviour by callers that vary the device
\* path and reuse their BackupConfig.
MaxCallerBackups == 2
\* Largest source size in bytes of those backups.
MaxCallerSourceSize == 2
\* The window numbers hashBufferedData is followed for: 0..MaxIteration.
MaxIteration == 1
\* The longest source that reaches over the reader's buffer does so by
\* MaxLongTail bytes.
MaxLongTail == 3

\* Byte values of the sources; 0 is also what a hole of a sparse file reads as.
Bytes == {0, 1}

VolumeNames == 1..NumVolumes

\* A device path "<dir>/<name>" as the pair of its directory and its basename.
DevicePaths == {<<d, n>> : d \in 1..NumDirs, n \in VolumeNames}

\* The BackupConfig.OutputFileName of a caller that sets none.
EmptyFileName == <<>>

\* bufio's minimum reader size: bufio.NewReaderSize(sourceFile, bufSize) never
\* allocates less than this.
minReadBufferSize == 16

\* BackupOutputFormat.
BackupOutputFormatSTDOUT == "stdout"
BackupOutputFormatFile == "file"

backupTypeDifferential == "differential"
backupTypeFull == "full"

(* ---------------------------------------------------------------------- *)
(* Sequences of bytes, files                                              *)
(* ---------------------------------------------------------------------- *)
Min(a, b) == IF a < b THEN a ELSE b
Max(a, b) == IF a > b THEN a ELSE b

Range(f) == {f[x] : x \in DOMAIN f}

\* All byte sequences of length 0..n: the possible contents of a source.
ByteSeqs(n) == UNION {[1..k -> Bytes] : k \in 0..n}

\* n zero bytes: a freshly made []byte.
Zeros(n) == [i \in 1..n |-> 0]

\* Bytes [off, off+n) of a byte sequence (0-based offset), cut at its end.
Slice(s, off, n) == SubSeq(s, off + 1, Min(Len(s), off + n))

\* os.File.WriteAt / Write at an offset of a file opened without O_TRUNC and
\* without O_APPEND: bytes are overwritten in place, the file grows as needed
\* and a gap reads as zero.
WriteAt(f, off, data) ==
    [i \in 1..Max(Len(f), off + Len(data)) |->
        IF i > off /\ i <= off + Len(data) THEN data[i - off]
        ELSE IF i <= Len(f) THEN f[i]
        ELSE 0]

(* ---------------------------------------------------------------------- *)
(* Pure functions of backup.go                                            *)
(* ---------------------------------------------------------------------- *)
\* calculateBlockHash: the digest of a block. xxhash is modelled free of
\* collisions: the digest is the number whose binary digits are a leading 1
\* followed by the block's bytes, so equal digests mean equal blocks.
RECURSIVE calculateBlockHash(_)
calculateBlockHash(blockData) ==
    IF blockData = <<>> THEN 1
    ELSE 2 * calculateBlockHash(SubSeq(blockData, 1, Len(blockData) - 1))
           + blockData[Len(blockData)]

\* calculateTotalBlocks: int(math.Ceil(float64(sizeInBytes) / float64(blockSize))).
calculateTotalBlocks(blockSize, sizeInBytes) ==
    (sizeInBytes + blockSize - 1) \div blockSize

\* BackupRecord{}: the zero value of the record type.
BackupRecordZero ==
    [ID |-> 0, VolumeID |-> 0, FullPath |-> <<>>, BackupType |-> "",
     TotalBlocks |-> 0, BlockSize |-> 0, SizeInBytes |-> 0]

\* hashBufferedData: one goroutine per block of the window stores the digest of
\* bytes [BlockSize*i, BlockSize*i + BlockSize) under position
\* iteration*bufCapacity + i; the result after wg.Wait().
hashBufferedData(blockSize, iteration, bufEntries, bufCapacity, buf) ==
    [pos \in {iteration * bufCapacity + i : i \in 0..(bufEntries - 1)} |->
        calculateBlockHash(Slice(buf, blockSize * (pos - iteration * bufCapacity), blockSize))]

\* The reverse maps writeBlocks can build: "for k, v := range hashMap
\* { reverseMap[v] = k }" keeps, for a digest found at several positions, the
\* position Go's map iteration happens to visit last, which can be any of them.
ReverseMaps(hashMap) ==
    {rm \in [Range(hashMap) -> DOMAIN hashMap] : \A h \in Range(hashMap) : hashMap[rm[h]] = h}

\* All orders in which a range over a Go map can visit the keys S.
MapOrders(S) == {s \in [1..Cardinality(S) -> S] : Range(s) = S}

\* sort.Ints over a set of distinct positions.
RECURSIVE SortInts(_)
SortInts(S) ==
    IF S = {} THEN <<>>
    ELSE LET m == CHOOSE x \in S : \A y \in S : x <= y
         IN <<m>> \o SortInts(S \ {m})

\* A writeBlocks that writes the window as it was read instead of the payloads
\* of the new digests.
payloadBufWholeWindow(insertableSlice, blockBuf, blockSize, iteration, bufCapacity) ==
    blockBuf

\* The payload buffer of writeBlocks: for each position of insertableSlice, in
\* order, the BlockSize bytes of that block of the window.
RECURSIVE payloadBuf(_, _, _, _, _)
payloadBuf(insertableSlice, blockBuf, blockSize, iteration, bufCapacity) ==
    IF insertableSlice = <<>> THEN <<>>
    ELSE Slice(blockBuf, (Head(insertableSlice) - iteration * bufCapacity) * blockSize, blockSize)
         \o payloadBuf(Tail(insertableSlice), blockBuf, blockSize, iteration, bufCapacity)

\* A NewBackup that makes every backup a full one.
determineBackupTypeAlwaysFull(lastFull) == backupTypeFull

\* determineBackupType: a zero BackupRecord (no full backup found) gives full.
determineBackupType(lastFull) ==
    IF lastFull = BackupRecordZero THEN backupTypeFull ELSE backupTypeDifferential

\* generateBackupName: "<volume>_<type>_<unix millis>"; the clock is the
\* number of the backup being created.
generateBackupName(volName, backupType, now) == <<volName, backupType, now>>

(* ---------------------------------------------------------------------- *)
(* State                                                                  *)
(* ---------------------------------------------------------------------- *)
VARIABLES
    cfg,              \* the BackupConfig every backup is created with
    volumes,          \* table volumes: row i has id i
    backups,          \* table backups: row i has id i
    blocks,           \* table blocks: blocks[i] is the hash of the row with id i
    block_positions,  \* table block_positions: rows (backup_id, block_id, position)
    files,            \* the backup artifacts on disk: FullPath -> bytes
    run,              \* run[i]: the Backup object NewBackup returned for backup i
    restored,         \* the outcome of the last NewRestore / Restore.Run
    lastInsertRowid,  \* sqlite3_last_insert_rowid of the store's connection
    openTx,           \* the backups whose run holds a transaction begun and not ended
    ret,              \* what the last direct call of Store.InsertVolume returned
    hashing           \* a call of hashBufferedData, goroutine by goroutine

vars == <<cfg, volumes, backups, blocks, block_positions, files, run, restored,
          lastInsertRowid, openTx, ret, hashing>>

BackupIDs == 1..Len(backups)

\* No NewRestore has happened yet.
NoRestore == [ID |-> 0, dir |-> "", err |-> "", out |-> <<>>, base |-> <<>>,
              skipped |-> FALSE, started |-> FALSE, asked |-> FALSE]

\* Store.InsertVolume has not been called directly yet.
NoReturn == [called |-> FALSE]

\* Volume{}: the zero value of the type.
VolumeZero == [ID |-> 0, Name |-> 0, DevicePath |-> <<>>]

\* No call of hashBufferedData is followed goroutine by goroutine.
NoHashing == [pc |-> "idle"]

\* A Backup.Run that has not returned yet.
InFlight(b) == run[b].pc \notin {"done", "failed"}

(* ---------------------------------------------------------------------- *)
(* Store (store.go)                                                       *)
(* ---------------------------------------------------------------------- *)
\* Store.FindVolume: the row of that name, or the zero Volume (sql.ErrNoRows).
FindVolume(name) ==
    IF \E i \in 1..Len(volumes) : volumes[i].Name = name
    THEN volumes[CHOOSE i \in 1..Len(volumes) : volumes[i].Name = name]
    ELSE VolumeZero

\* Store.InsertVolume on a connection whose last insert had rowid connRowid:
\* "INSERT ... ON CONFLICT DO NOTHING", then res.LastInsertId(). The driver
\* reports sqlite3_last_insert_rowid, which an insert that did nothing leaves
\* as it was: it is 0 only on a connection that has inserted no row yet, and
\* only then is the existing row looked up with FindVolume. The result is the
\* table after the call, the Volume returned and the connection's rowid.
InsertVolume(name, devicePath, connRowid) ==
    IF \E i \in 1..Len(volumes) : volumes[i].Name = name
    THEN [volumes |-> volumes,
          rowid |-> connRowid,
          vol |-> IF connRowid = 0 THEN FindVolume(name)
                  ELSE [ID |-> connRowid, Name |-> name, DevicePath |-> devicePath]]
    ELSE [volumes |-> Append(volumes, [ID |-> Len(volumes) + 1, Name |-> name,
                                       DevicePath |-> devicePath]),
          rowid |-> Len(volumes) + 1,
          vol |-> [ID |-> Len(volumes) + 1, Name |-> name, DevicePath |-> devicePath]]

\* A findLastFullBackupRecord whose query lacks "volume_id = ?": the last full
\* backup of any volume.
findLastFullBackupRecordAnyVolume(volumeID) ==
    LET fulls == {i \in BackupIDs : backups[i].BackupType = backupTypeFull}
    IN IF fulls = {} THEN BackupRecordZero
       ELSE [backups[CHOOSE i \in fulls : \A j \in fulls : j <= i] EXCEPT !.SizeInBytes = 0]

\* Store.findLastFullBackupRecord: "WHERE volume_id = ? AND backup_type = 'full'
\* ORDER BY id DESC LIMIT 1"; size_in_bytes is not selected, so the record
\* returned has SizeInBytes 0. No row gives the zero record.
findLastFullBackupRecord(volumeID) ==
    LET fulls == {i \in BackupIDs :
                    backups[i].VolumeID = volumeID /\ backups[i].BackupType = backupTypeFull}
    IN IF fulls = {} THEN BackupRecordZero
       ELSE [backups[CHOOSE i \in fulls : \A j \in fulls : j <= i] EXCEPT !.SizeInBytes = 0]

\* Store.findBackup: the row with that id, without size_in_bytes.
findBackup(id) ==
    IF id \in BackupIDs THEN [backups[id] EXCEPT !.SizeInBytes = 0] ELSE BackupRecordZero

\* Store.insertBackupRecord: the row the INSERT adds, with the id SQLite assigns.
insertBackupRecord(volumeID, fullPath, backupType, totalBlocks, blockSize, sizeInBytes) ==
    [ID |-> Len(backups) + 1, VolumeID |-> volumeID, FullPath |-> fullPath,
     BackupType |-> backupType, TotalBlocks |-> totalBlocks, BlockSize |-> blockSize,
     SizeInBytes |-> sizeInBytes]

\* Store.TotalBlocks: SELECT count(*) FROM blocks.
StoreTotalBlocks == Len(blocks)

\* Store.findBlockPositionsByBackup, as the set of its rows.
findBlockPositionsByBackup(backupID) == {r \in block_positions : r.backup_id = backupID}

\* Store.UniqueBlocksInBackup: COUNT(DISTINCT block_id) of the backup's rows.
UniqueBlocksInBackup(backupID) ==
    Cardinality({r.block_id : r \in findBlockPositionsByBackup(backupID)})

\* identifyDuplicateBlocks: SELECT DISTINCT hash FROM blocks WHERE hash IN (...).
identifyDuplicateBlocks(reverseMap) == {h \in DOMAIN reverseMap : h \in Range(blocks)}

(* ---------------------------------------------------------------------- *)
(* NewBackup                                                              *)
(* ---------------------------------------------------------------------- *)
\* resolveVolume: the volume named by the basename of the device path. A row
\* FindVolume finds is returned as it is stored; only sql.ErrNoRows leads to
\* InsertVolume with the caller's device path.
resolveVolume(devicePath) ==
    LET volName == devicePath[2]
    IN IF FindVolume(volName) # VolumeZero
       THEN [volumes |-> volumes, rowid |-> lastInsertRowid, vol |-> FindVolume(volName)]
       ELSE InsertVolume(volName, devicePath, lastInsertRowid)

\* The Backup object NewBackup returns: Config.DevicePath, vol, lastFullRecord
\* and the size in Record; src is what the file at vol.DevicePath holds for the
\* time of the run. With it are the variables of Run: iteration, the reader rd,
\* the count n of bytes the last reader.Read returned, the window, and stdout,
\* the bytes the run has written to os.Stdout.
NewBackupObject(devicePath, outputFormat, vol, src, sizeInBytes, lastFullRecord) ==
    [pc |-> "new", DevicePath |-> devicePath, OutputFormat |-> outputFormat,
     stdout |-> <<>>, vol |-> vol, src |-> src,
     lastFullRecord |-> lastFullRecord,
     SizeInBytes |-> sizeInBytes, iteration |-> 0, off |-> 0,
     rd |-> [pos |-> 0, buf |-> <<>>], n |-> 0,
     blockBuf |-> <<>>, hashMap |-> <<>>, insertablePositions |-> <<>>, err |-> ""]

\* NewBackup(cfg) with cfg.DevicePath = devicePath and cfg.OutputFileName =
\* outputFileName, when the file at cfg.DevicePath holds cfgSrc and the file at
\* the resolved volume's device path holds src: the size is taken from
\* cfg.DevicePath, the volume is resolved, the last full backup of the volume
\* decides the type, an empty file name is replaced by a generated one, and the
\* record is inserted. The output directory is the same for every backup, so
\* the file name stands for the full path.
NewBackup(devicePath, outputFileName, outputFormat, cfgSrc, src) ==
    /\ LET sizeInBytes == Len(cfgSrc)
           totalBlocks == calculateTotalBlocks(cfg.BlockSize, sizeInBytes)
           resolved == resolveVolume(devicePath)
           vol == resolved.vol
           lastFullRecord == findLastFullBackupRecord(vol.ID)
           backupType == determineBackupType(lastFullRecord)
           fileName == IF outputFileName = EmptyFileName
                       THEN generateBackupName(vol.Name, backupType, Len(backups) + 1)
                       ELSE outputFileName
           fullPath == fileName
           br == insertBackupRecord(vol.ID, fullPath, backupType, totalBlocks,
                                    cfg.BlockSize, sizeInBytes)
       IN /\ vol.DevicePath = devicePath => src = cfgSrc
          /\ volumes' = resolved.volumes
          /\ backups' = Append(backups, br)
          /\ lastInsertRowid' = br.ID
          /\ run' = Append(run, NewBackupObject(devicePath, outputFormat, vol, src,
                                                sizeInBytes, lastFullRecord))
    /\ UNCHANGED <<cfg, hashing, blocks, block_positions, files, restored, openTx, ret>>

(* ---------------------------------------------------------------------- *)
(* Backup.Run                                                             *)
(* ---------------------------------------------------------------------- *)
\* bufio.Reader.Read(p) with len(p) = n > 0 over the source file, for a reader
\* of size rsize whose state is rd (pos: offset of the file, buf: bytes
\* buffered and not yet handed out). With an empty buffer a read of at least
\* rsize bytes goes straight to the file; a smaller one fills the buffer with
\* one file read first. It returns what the buffer holds, at most n bytes.
readerRead(rd, src, n, rsize) ==
    LET left == Len(src) - rd.pos
    IN IF rd.buf = <<>>
       THEN IF left <= 0
            THEN [data |-> <<>>, eof |-> TRUE, rd |-> rd]
            ELSE IF n >= rsize
            THEN [data |-> Slice(src, rd.pos, n), eof |-> FALSE,
                  rd |-> [pos |-> rd.pos + Min(n, left), buf |-> <<>>]]
            ELSE LET fill == Slice(src, rd.pos, rsize)
                 IN [data |-> SubSeq(fill, 1, Min(n, Len(fill))), eof |-> FALSE,
                     rd |-> [pos |-> rd.pos + Len(fill),
                             buf |-> SubSeq(fill, Min(n, Len(fill)) + 1, Len(fill))]]
       ELSE [data |-> SubSeq(rd.buf, 1, Min(n, Len(rd.buf))), eof |-> FALSE,
             rd |-> [rd EXCEPT !.buf = SubSeq(rd.buf, Min(n, Len(rd.buf)) + 1, Len(rd.buf))]]

\* The window buffer after reader.Read(blockBuf): on EOF it is cut to the bytes
\* read; otherwise it keeps its length, zero beyond the bytes read.
windowBuf(r, n) ==
    IF r.eof THEN r.data ELSE r.data \o Zeros(n - Len(r.data))

\* The number of blocks of the window: len(blockBuf) / BlockSize.
bufEntriesOf(blockBuf, blockSize) == Len(blockBuf) \div blockSize

\* Run up to the streaming loop: the device and the artifact are opened
\* (O_CREATE|O_WRONLY makes the artifact if it is missing and keeps it
\* otherwise; for the stdout format the target is os.Stdout and no file is
\* opened) and the reader is made.
RunOpen(b) ==
    /\ run[b].pc = "new"
    /\ files' = IF \/ backups[b].FullPath \in DOMAIN files
                   \/ run[b].OutputFormat = BackupOutputFormatSTDOUT
                THEN files
                ELSE (backups[b].FullPath :> <<>>) @@ files
    /\ run' = [run EXCEPT ![b].pc = "loop"]
    /\ UNCHANGED <<cfg, hashing, volumes, backups, blocks, block_positions, restored,
                   lastInsertRowid, openTx, ret>>

\* The length of the next window read: bufSize, or what is left of the source
\* (trimmedBufSize) when the window reaches over its end.
windowLen(b) ==
    LET bufSize == cfg.BlockBufferSize * cfg.BlockSize
        offset == run[b].iteration * (bufSize \div cfg.BlockSize) * cfg.BlockSize
        endOfFile == run[b].SizeInBytes
    IN IF offset + bufSize > endOfFile THEN endOfFile - offset ELSE bufSize

\* The streaming loop goes on: iteration*bufCapacity < b.TotalBlocks(), and no
\* break on trimmedBufSize <= 0.
MoreWindows(b) ==
    /\ run[b].iteration * cfg.BlockBufferSize < backups[b].TotalBlocks
    /\ windowLen(b) > 0

\* One window, up to the transaction of writeBlocks: read the window, hash its
\* blocks, ask the store which digests it holds. On io.EOF the window is cut
\* to the n bytes read; the break for n = 0 leaves the switch statement it is
\* in, not the loop, so the empty window goes the same way as any other.
RunReadWindow(b) ==
    /\ run[b].pc = "loop"
    /\ MoreWindows(b)
    /\ LET bufSize == cfg.BlockBufferSize * cfg.BlockSize
           bufCapacity == bufSize \div cfg.BlockSize
           n == windowLen(b)
           r == readerRead(run[b].rd, run[b].src, n, Max(bufSize, minReadBufferSize))
           blockBuf == windowBuf(r, n)
           bufEntries == bufEntriesOf(blockBuf, cfg.BlockSize)
           hashMap == hashBufferedData(cfg.BlockSize, run[b].iteration, bufEntries,
                                       bufCapacity, blockBuf)
       IN \E reverseMap \in ReverseMaps(hashMap) :
                 LET duplicateHashes == identifyDuplicateBlocks(reverseMap)
                     insertablePositions ==
                        [h \in DOMAIN reverseMap \ duplicateHashes |-> reverseMap[h]]
                 IN run' = [run EXCEPT
                        ![b].rd = r.rd,
                        ![b].n = Len(r.data),
                        ![b].hashMap = hashMap,
                        ![b].blockBuf = IF DOMAIN insertablePositions = {} THEN <<>> ELSE blockBuf,
                        ![b].insertablePositions = insertablePositions,
                        ![b].pc = IF DOMAIN insertablePositions = {}
                                  THEN "positions" ELSE "insert"]
    /\ UNCHANGED <<cfg, hashing, volumes, backups, blocks, block_positions, files, restored,
                   lastInsertRowid, openTx, ret>>

\* The rest of writeBlocks: INSERT INTO blocks (hash) VALUES (?),(?),... in one
\* transaction, with the digests in the order the map range yields them, then
\* the payloads of the new digests, sorted by position, written to the
\* artifact. blocks.hash is UNIQUE and the statement has no ON CONFLICT clause:
\* a digest stored since identifyDuplicateBlocks ran fails the statement, and
\* writeBlocks returns that error without tx.Rollback(): the transaction stays
\* begun.
RunInsertBlocks(b) ==
    /\ run[b].pc = "insert"
    /\ LET insertablePositions == run[b].insertablePositions
           bufCapacity == cfg.BlockBufferSize
       IN IF \E h \in DOMAIN insertablePositions : h \in Range(blocks)
          THEN /\ run' = [run EXCEPT ![b].pc = "failed",
                                     ![b].err = "error inserting block hash into database",
                                     ![b].blockBuf = <<>>,
                                     ![b].hashMap = <<>>,
                                     ![b].insertablePositions = <<>>]
               /\ openTx' = openTx \cup {b}
               /\ UNCHANGED <<blocks, files, lastInsertRowid>>
          ELSE \E queryValues \in MapOrders(DOMAIN insertablePositions) :
                 LET insertableSlice == SortInts(Range(insertablePositions))
                     buf == payloadBuf(insertableSlice, run[b].blockBuf, cfg.BlockSize,
                                       run[b].iteration, bufCapacity)
                     path == backups[b].FullPath
                 IN /\ blocks' = blocks \o queryValues
                    /\ lastInsertRowid' = Len(blocks) + Len(queryValues)
                    /\ UNCHANGED openTx
                    /\ files' = IF run[b].OutputFormat = BackupOutputFormatSTDOUT
                                THEN files
                                ELSE [files EXCEPT ![path] =
                                        WriteAt(files[path], run[b].off, buf)]
                    /\ run' = [run EXCEPT ![b].pc = "positions",
                                          ![b].stdout =
                                             IF run[b].OutputFormat = BackupOutputFormatSTDOUT
                                             THEN @ \o buf ELSE @,
                                          ![b].off = run[b].off + Len(buf),
                                          ![b].blockBuf = <<>>,
                                          ![b].insertablePositions = <<>>]
    /\ UNCHANGED <<cfg, hashing, volumes, backups, block_positions, restored, ret>>

\* writeBlocks when target.Write fails (the disk is full, the pipe is closed):
\* the transaction that inserted the window's digests is committed before the
\* write, so the rows stay; written bytes of the payloads, fewer than all,
\* reach the artifact, and Run returns the error.
RunWriteError(b) ==
    /\ run[b].pc = "insert"
    /\ \A h \in DOMAIN run[b].insertablePositions : h \notin Range(blocks)
    /\ \E queryValues \in MapOrders(DOMAIN run[b].insertablePositions) :
         LET insertableSlice == SortInts(Range(run[b].insertablePositions))
             buf == payloadBuf(insertableSlice, run[b].blockBuf, cfg.BlockSize,
                               run[b].iteration, cfg.BlockBufferSize)
             path == backups[b].FullPath
         IN \E written \in 0..(Len(buf) - 1) :
               /\ blocks' = blocks \o queryValues
               /\ lastInsertRowid' = Len(blocks) + Len(queryValues)
               /\ files' = IF run[b].OutputFormat = BackupOutputFormatSTDOUT
                           THEN files
                           ELSE [files EXCEPT ![path] =
                                   WriteAt(files[path], run[b].off, SubSeq(buf, 1, written))]
               /\ run' = [run EXCEPT ![b].pc = "failed",
                                     ![b].stdout =
                                        IF run[b].OutputFormat = BackupOutputFormatSTDOUT
                                        THEN @ \o SubSeq(buf, 1, written) ELSE @,
                                     ![b].err = "error writing block to backup file",
                                     ![b].off = run[b].off + written,
                                     ![b].blockBuf = <<>>,
                                     ![b].hashMap = <<>>,
                                     ![b].insertablePositions = <<>>]
    /\ UNCHANGED <<cfg, hashing, volumes, backups, block_positions, restored, openTx, ret>>

\* The process is stopped between two windows: Run never returns, and the
\* caller goes on with what the store and the artifact hold.
RunAbort(b) ==
    /\ run[b].pc = "loop"
    /\ run[b].iteration > 0
    /\ MoreWindows(b)
    /\ run' = [run EXCEPT ![b].pc = "failed", ![b].err = "aborted"]
    /\ UNCHANGED <<cfg, hashing, volumes, backups, blocks, block_positions, files,
                   restored, lastInsertRowid, openTx, ret>>

\* A digest-to-id lookup made before the window's digests are committed: it
\* does not see the row inserted last.
blockIDOfBeforeCommit(hash) ==
    IF \E i \in 1..(Len(blocks) - 1) : blocks[i] = hash
    THEN CHOOSE i \in 1..(Len(blocks) - 1) : blocks[i] = hash
    ELSE 0

\* blockIDMap of insertBlockPositionsTransaction: SELECT id, hash FROM blocks
\* WHERE hash IN (the window's digests), as a lookup that gives 0 for a digest
\* without a row (Go's zero value for a missing map key).
blockIDOf(hash) ==
    IF hash \in Range(blocks) THEN CHOOSE i \in 1..Len(blocks) : blocks[i] = hash ELSE 0

\* dupMap of insertBlockPositionsTransaction: position -> digest of the rows
\* of the last full backup with posStartRange <= position < posEndRange.
dupMapOf(lastFullID, posStartRange, posEndRange) ==
    LET rows == {r \in block_positions :
                    /\ r.backup_id = lastFullID
                    /\ r.block_id \in 1..Len(blocks)
                    /\ r.position >= posStartRange
                    /\ r.position < posEndRange}
    IN [pos \in {r.position : r \in rows} |->
          blocks[(CHOOSE r \in rows : r.position = pos).block_id]]

\* An insertBlockPositionsTransaction that records a digest of the window once,
\* at the lowest position it has there.
positionRowsOnePerDigest(b, iteration, bufEntries, bufCapacity, hashMap) ==
    {[backup_id |-> backups[b].ID, block_id |-> blockIDOf(hashMap[pos]), position |-> pos] :
        pos \in {p \in DOMAIN hashMap : \A q \in DOMAIN hashMap : hashMap[q] = hashMap[p] => p <= q}}

\* An insertBlockPositionsTransaction whose statement takes effect in part:
\* the row of the window's highest position is left out.
positionRowsInPart(b, iteration, bufEntries, bufCapacity, hashMap) ==
    {[backup_id |-> backups[b].ID, block_id |-> blockIDOf(hashMap[pos]), position |-> pos] :
        pos \in {p \in DOMAIN hashMap : \E q \in DOMAIN hashMap : q > p}}

\* The rows insertBlockPositionsTransaction inserts for a window: one per
\* position of the window, except, in a differential backup, the positions
\* whose digest equals the one the last full backup recorded there.
positionRows(b, iteration, bufEntries, bufCapacity, hashMap) ==
    LET posStartRange == iteration * bufCapacity
        posEndRange == posStartRange + bufCapacity
        differential == backups[b].BackupType = backupTypeDifferential
        dupMap == IF differential
                  THEN dupMapOf(run[b].lastFullRecord.ID, posStartRange, posEndRange)
                  ELSE <<>>
    IN IF DOMAIN hashMap = {} THEN {}
       ELSE {[backup_id |-> backups[b].ID, block_id |-> blockIDOf(hashMap[pos]), position |-> pos] :
               pos \in {p \in {posStartRange + i : i \in 0..(bufEntries - 1)} :
                          ~(differential /\ p \in DOMAIN dupMap /\ dupMap[p] = hashMap[p])}}

\* insertBlockPositionsTransaction and the end of the loop body: the rows of
\* the window are inserted by one statement in one transaction; iteration++.
RunInsertPositions(b) ==
    /\ run[b].pc = "positions"
    /\ LET bufEntries == Cardinality(DOMAIN run[b].hashMap)
           rows == positionRows(b, run[b].iteration, bufEntries, cfg.BlockBufferSize,
                                run[b].hashMap)
       IN IF rows \cap block_positions # {}
          THEN \* UNIQUE(backup_id, block_id, position): rolled back, error returned
               /\ run' = [run EXCEPT ![b].pc = "failed",
                                     ![b].err = "error inserting block positions",
                                     ![b].hashMap = <<>>]
               /\ UNCHANGED <<block_positions, lastInsertRowid>>
          ELSE /\ block_positions' = block_positions \cup rows
               /\ lastInsertRowid' = IF rows = {} THEN lastInsertRowid
                                     ELSE Cardinality(block_positions \cup rows)
               /\ run' = [run EXCEPT ![b].pc = "loop",
                                     ![b].iteration = run[b].iteration + 1,
                                     ![b].hashMap = <<>>]
    /\ UNCHANGED <<cfg, hashing, volumes, backups, blocks, files, restored, openTx, ret>>

\* The end of Run: the size of the file at FullPath is read with
\* GetTargetSizeInBytes (os.Stat) and kept in b.Record.SizeInBytes, the record
\* in memory, and Run returns nil; with no file at FullPath os.Stat fails and
\* Run returns that error.
RunFinish(b) ==
    /\ run[b].pc = "loop"
    /\ ~MoreWindows(b)
    /\ run' = IF backups[b].FullPath \in DOMAIN files
              THEN [run EXCEPT ![b].pc = "done",
                               ![b].SizeInBytes = Len(files[backups[b].FullPath]),
                               ![b].rd = [pos |-> 0, buf |-> <<>>]]
              ELSE [run EXCEPT ![b].pc = "failed",
                               ![b].err = "error getting backup size",
                               ![b].rd = [pos |-> 0, buf |-> <<>>]]
    /\ UNCHANGED <<cfg, hashing, volumes, backups, blocks, block_positions, files, restored,
                   lastInsertRowid, openTx, ret>>

(* ---------------------------------------------------------------------- *)
(* Restore (restore.go)                                                   *)
(* ---------------------------------------------------------------------- *)
\* readBlock(disk, totalBlocks, blockSize, blockNum): blockSize bytes of the
\* artifact at offset blockSize*blockNum, fewer when that reaches over
\* blockSize*totalBlocks. disk.Read at or after the end of the file is io.EOF;
\* a read cut short by the end of the file leaves the rest of the buffer zero.
readBlock(disk, totalBlocks, blockSize, blockNum) ==
    LET offset == blockSize * blockNum
        endOfFile == blockSize * totalBlocks
        n == IF offset + blockSize > endOfFile THEN endOfFile - offset ELSE blockSize
    IN IF n <= 0 \/ offset >= Len(disk)
       THEN [err |-> "EOF", data |-> <<>>]
       ELSE [err |-> "", data |-> Slice(disk, offset, n) \o Zeros(n - Len(Slice(disk, offset, n)))]

\* "SELECT position from block_positions bp JOIN blocks b ON bp.block_id = b.id
\* where bp.backup_id = ? AND b.hash = ?".
positionsOfHash(backupID, hash) ==
    {r.position : r \in {q \in block_positions :
                            /\ q.backup_id = backupID
                            /\ q.block_id \in 1..Len(blocks)
                            /\ blocks[q.block_id] = hash}}

\* target.WriteAt(blockData, pos*blockSize) for every pos of positions.
RECURSIVE writeAtPositions(_, _, _, _)
writeAtPositions(target, blockData, blockSize, positions) ==
    IF positions = {} THEN target
    ELSE LET pos == CHOOSE x \in positions : \A y \in positions : x <= y
         IN writeAtPositions(WriteAt(target, pos * blockSize, blockData), blockData,
                             blockSize, positions \ {pos})

\* The loop of restoreFromBackup from blockNum on: payload blockNum of the
\* artifact is read, hashed and written at every position of the backup that
\* refers to its digest; with no such position the loop goes on to the next
\* payload. skipped tells whether that happened.
RECURSIVE replayFrom(_, _, _, _, _, _)
replayFrom(target, source, backup, totalUniqueBlocks, blockNum, skipped) ==
    IF blockNum >= totalUniqueBlocks THEN [err |-> "", out |-> target, skipped |-> skipped]
    ELSE LET rb == readBlock(source, totalUniqueBlocks, backup.BlockSize, blockNum)
             positions == positionsOfHash(backup.ID, calculateBlockHash(rb.data))
         IN IF rb.err # ""
            THEN [err |-> "error reading block", out |-> target, skipped |-> skipped]
            ELSE replayFrom(
                    writeAtPositions(target, rb.data, backup.BlockSize, positions),
                    source, backup, totalUniqueBlocks, blockNum + 1,
                    skipped \/ positions = {})

\* Restore.restoreFromBackup(target, backup).
restoreFromBackup(target, backup) ==
    IF backup.FullPath \notin DOMAIN files
    THEN [err |-> "error opening restore source file", out |-> target, skipped |-> FALSE]
    ELSE replayFrom(target, files[backup.FullPath], backup,
                    UniqueBlocksInBackup(backup.ID), 0, FALSE)

\* The directories that exist, and the RestoreConfig.OutputDirectory values
\* callers pass: none, one that exists, one that does not.
ExistingDirectories == {"."}
RestoreDirectories == {"", ".", "missing"}

\* A NewRestore that goes on without its checks: a backup that is not found
\* is taken as the zero record.
NewRestoreUnchecked(id, outputDirectory) ==
    [err |-> "", backup |-> findBackup(id),
     lastFullBackup |-> findLastFullBackupRecord(findBackup(id).VolumeID)]

\* NewRestore(cfg) with cfg.SourceBackupID = id: os.Stat of a non-empty output
\* directory, findBackup (sql.ErrNoRows for an id without a row) and, for a
\* differential backup, findLastFullBackupRecord (sql.ErrNoRows when the volume
\* has no full backup); the first error is returned with a nil Restore.
NewRestore(id, outputDirectory) ==
    LET backup == findBackup(id)
        lfb == findLastFullBackupRecord(backup.VolumeID)
    IN IF outputDirectory # "" /\ outputDirectory \notin ExistingDirectories
       THEN [err |-> "restore directory does not exist",
             backup |-> BackupRecordZero, lastFullBackup |-> BackupRecordZero]
       ELSE IF backup = BackupRecordZero
       THEN [err |-> "error resolving backup record",
             backup |-> BackupRecordZero, lastFullBackup |-> BackupRecordZero]
       ELSE IF backup.BackupType = backupTypeDifferential /\ lfb = BackupRecordZero
       THEN [err |-> "error resolving last full backup record",
             backup |-> BackupRecordZero, lastFullBackup |-> BackupRecordZero]
       ELSE [err |-> "", backup |-> backup,
             lastFullBackup |-> IF backup.BackupType = backupTypeDifferential
                                THEN lfb ELSE BackupRecordZero]

\* Restore.Run into a new output file: a full backup is replayed alone, a
\* differential one after the last full backup of its volume; any other type
\* is not supported. The replay of the full backup has returned before the
\* replay of the differential one is called with the same target; base is
\* what the target holds between the two.
RestoreOutcome(r) ==
    IF r.backup.BackupType = backupTypeFull
    THEN LET full == restoreFromBackup(<<>>, r.backup)
         IN [err |-> full.err, out |-> full.out, skipped |-> full.skipped,
             base |-> <<>>]
    ELSE IF r.backup.BackupType = backupTypeDifferential
    THEN LET base == restoreFromBackup(<<>>, r.lastFullBackup)
             diff == restoreFromBackup(base.out, r.backup)
         IN IF base.err # ""
            THEN [err |-> "error restoring from full backup", out |-> base.out,
                  skipped |-> base.skipped, base |-> base.out]
            ELSE [err |-> diff.err, out |-> diff.out,
                  skipped |-> diff.skipped \/ base.skipped, base |-> base.out]
    ELSE [err |-> "backup type is not supported", out |-> <<>>, skipped |-> FALSE,
          base |-> <<>>]

\* A restore of backup id by a caller: NewRestore and, when it returns a
\* Restore, Run, which creates the output file. No backup run is in flight.
\* Every restore is into an output file of its own and changes nothing a later
\* one reads, so one restore per behaviour shows them all.
RestoreRun(id, outputDirectory) ==
    /\ restored = NoRestore
    /\ \A b \in BackupIDs : ~InFlight(b)
    /\ LET r == NewRestore(id, outputDirectory)
       IN restored' =
            IF r.err # ""
            THEN [ID |-> id, dir |-> outputDirectory, err |-> r.err, out |-> <<>>,
                  base |-> <<>>, skipped |-> FALSE, started |-> FALSE, asked |-> TRUE]
            ELSE [ID |-> id, dir |-> outputDirectory, err |-> RestoreOutcome(r).err,
                  out |-> RestoreOutcome(r).out, base |-> RestoreOutcome(r).base,
                  skipped |-> RestoreOutcome(r).skipped,
                  started |-> TRUE, asked |-> TRUE]
    /\ UNCHANGED <<cfg, hashing, volumes, backups, blocks, block_positions, files, run,
                   lastInsertRowid, openTx, ret>>

(* ---------------------------------------------------------------------- *)
(* hashBufferedData, goroutine by goroutine                               *)
(* ---------------------------------------------------------------------- *)
\* The call hashBufferedData(iteration, bufEntries, bufCapacity, buf) at its
\* entry: wg and mu are zero, hashMap is empty, the loop is at i = 0 and no
\* goroutine has been started. g[i + 1] is the goroutine started for block i.
hashBufferedDataCall(iteration, bufEntries, bufCapacity, buf) ==
    [pc |-> "spawn", iteration |-> iteration, bufEntries |-> bufEntries,
     bufCapacity |-> bufCapacity, buf |-> buf, i |-> 0, wg |-> 0, mu |-> FALSE,
     hashMap |-> <<>>, g |-> <<>>]

\* The goroutines that hold mu: between mu.Lock() and mu.Unlock().
holdingMu(h) == {j \in 1..Len(h.g) : h.g[j].pc \in {"store", "unlock"}}

\* A wait that is no barrier: it returns whatever the counter is.
wgWaitNoBarrier(h) == TRUE

\* wg.Wait() returns: the counter is zero.
wgWaitReturns(h) == h.wg = 0

\* The loop of hashBufferedData: wg.Add(1) and go func(i) for the next block.
HashSpawn ==
    /\ hashing.pc = "spawn"
    /\ hashing.i < hashing.bufEntries
    /\ hashing' = [hashing EXCEPT !.wg = @ + 1,
                                  !.g = Append(@, [pc |-> "hash", i |-> hashing.i,
                                                   pos |-> 0, hash |-> 0]),
                                  !.i = @ + 1]
    /\ UNCHANGED <<cfg, volumes, backups, blocks, block_positions, files, run,
                   restored, lastInsertRowid, openTx, ret>>

\* Goroutine j up to mu.Lock(): the block's bytes are cut out of buf and
\* hashed, the position is computed.
GoHash(j) ==
    /\ hashing.pc \in {"spawn", "returned"}
    /\ j \in 1..Len(hashing.g)
    /\ hashing.g[j].pc = "hash"
    /\ LET i == hashing.g[j].i
           startingPos == cfg.BlockSize * i
           blockData == Slice(hashing.buf, startingPos, cfg.BlockSize)
       IN hashing' = [hashing EXCEPT
                        !.g[j].hash = calculateBlockHash(blockData),
                        !.g[j].pos = hashing.iteration * hashing.bufCapacity + i,
                        !.g[j].pc = "lock"]
    /\ UNCHANGED <<cfg, volumes, backups, blocks, block_positions, files, run,
                   restored, lastInsertRowid, openTx, ret>>

\* mu.Lock() of goroutine j: it goes on when no goroutine holds mu.
GoLock(j) ==
    /\ j \in 1..Len(hashing.g)
    /\ hashing.g[j].pc = "lock"
    /\ ~hashing.mu
    /\ hashing' = [hashing EXCEPT !.mu = TRUE, !.g[j].pc = "store"]
    /\ UNCHANGED <<cfg, volumes, backups, blocks, block_positions, files, run,
                   restored, lastInsertRowid, openTx, ret>>

\* hashMap[pos] = hash of goroutine j.
GoStore(j) ==
    /\ j \in 1..Len(hashing.g)
    /\ hashing.g[j].pc = "store"
    /\ hashing' = [hashing EXCEPT
                     !.hashMap = (hashing.g[j].pos :> hashing.g[j].hash) @@ @,
                     !.g[j].pc = "unlock"]
    /\ UNCHANGED <<cfg, volumes, backups, blocks, block_positions, files, run,
                   restored, lastInsertRowid, openTx, ret>>

\* mu.Unlock() of goroutine j and, as the function returns, the deferred
\* wg.Done().
GoUnlock(j) ==
    /\ j \in 1..Len(hashing.g)
    /\ hashing.g[j].pc = "unlock"
    /\ hashing' = [hashing EXCEPT !.mu = FALSE, !.g[j].pc = "done"]
    /\ UNCHANGED <<cfg, volumes, backups, blocks, block_positions, files, run,
                   restored, lastInsertRowid, openTx, ret>>

GoDone(j) ==
    /\ j \in 1..Len(hashing.g)
    /\ hashing.g[j].pc = "done"
    /\ hashing' = [hashing EXCEPT !.wg = @ - 1, !.g[j].pc = "exited"]
    /\ UNCHANGED <<cfg, volumes, backups, blocks, block_positions, files, run,
                   restored, lastInsertRowid, openTx, ret>>

\* The loop is over, wg.Wait() returns and hashBufferedData returns hashMap
\* to Run, which goes on to writeBlocks.
HashReturn ==
    /\ hashing.pc = "spawn"
    /\ hashing.i >= hashing.bufEntries
    /\ wgWaitReturns(hashing)
    /\ hashing' = [hashing EXCEPT !.pc = "returned"]
    /\ UNCHANGED <<cfg, volumes, backups, blocks, block_positions, files, run,
                   restored, lastInsertRowid, openTx, ret>>

(* ---------------------------------------------------------------------- *)
(* Specification                                                          *)
(* ---------------------------------------------------------------------- *)
Init ==
    /\ cfg \in [BlockSize : 1..MaxBlockSize, BlockBufferSize : 1..MaxBlockBufferSize]
    /\ volumes = <<>>
    /\ backups = <<>>
    /\ blocks = <<>>
    /\ block_positions = {}
    /\ files = <<>>
    /\ run = <<>>
    /\ restored = NoRestore
    /\ lastInsertRowid = 0
    /\ openTx = {}
    /\ ret = NoReturn
    /\ hashing = NoHashing

\* The device names a caller can back up next: names are interchangeable, so
\* they are taken into use in order.
NextVolumeNames == 1..Min(NumVolumes, Len(volumes) + 1)

\* The ids a caller asks a restore of: those of the backups, and one below and
\* one above them that no backup has.
RestoreIDs == 0..(Len(backups) + 1)

\* The command-line driver: one backup at a time, each run to its end before
\* the next is created, every device in the same directory and no output file
\* name given. A restore changes neither the store nor the artifacts, so the
\* driver's restores come after its backups.
SerialBackup(volName, src) ==
    /\ Len(backups) < MaxBackups
    /\ restored = NoRestore
    /\ \A b \in BackupIDs : ~InFlight(b)
    /\ NewBackup(<<1, volName>>, EmptyFileName, BackupOutputFormatFile, src, src)

\* Two drivers at once over one store: backups of different volumes overlap,
\* backups of one volume are serialized by the caller.
ConcurrentBackup(volName, src) ==
    /\ Len(backups) < MaxConcurrentBackups
    /\ restored = NoRestore
    /\ \A b \in BackupIDs : volumes[backups[b].VolumeID].Name = volName => ~InFlight(b)
    /\ NewBackup(<<1, volName>>, EmptyFileName, BackupOutputFormatFile, src, src)

RunStep ==
    \/ \E b \in BackupIDs : RunOpen(b)
    \/ \E b \in BackupIDs : RunReadWindow(b)
    \/ \E b \in BackupIDs : RunInsertBlocks(b)
    \/ \E b \in BackupIDs : RunInsertPositions(b)
    \/ \E b \in BackupIDs : RunFinish(b)

Next ==
    \/ \E volName \in NextVolumeNames, src \in ByteSeqs(MaxSourceSize) : SerialBackup(volName, src)
    \/ RunStep
    \/ \E id \in RestoreIDs, dir \in RestoreDirectories : RestoreRun(id, dir)

Spec == Init /\ [][Next]_vars

NextConcurrent ==
    \/ \E volName \in NextVolumeNames, src \in ByteSeqs(MaxSourceSize) : ConcurrentBackup(volName, src)
    \/ RunStep
    \/ \E id \in RestoreIDs, dir \in RestoreDirectories : RestoreRun(id, dir)

SpecConcurrent == Init /\ [][NextConcurrent]_vars

\* The file names a caller's BackupConfig can hold: none, or, for a config
\* used before, the name NewBackup stored in it then.
OutputFileNames == {EmptyFileName} \cup {backups[i].FullPath : i \in BackupIDs}

\* A caller of the package that uses one store and runs one backup at a time:
\* the device can be in any directory, and a BackupConfig can be used again.
CallerBackup(devicePath, outputFileName, cfgSrc, src) ==
    /\ Len(backups) < MaxCallerBackups
    /\ restored = NoRestore
    /\ \A b \in BackupIDs : ~InFlight(b)
    /\ devicePath[2] \in NextVolumeNames
    /\ NewBackup(devicePath, outputFileName, BackupOutputFormatFile, cfgSrc, src)

\* The caller calls Store.InsertVolume itself, on the connection that made the
\* store's last insert or on a new one.
InsertVolumeCall(name, devicePath, connRowid) ==
    /\ restored = NoRestore
    /\ \A b \in BackupIDs : ~InFlight(b)
    /\ LET res == InsertVolume(name, devicePath, connRowid)
       IN /\ volumes' = res.volumes
          /\ lastInsertRowid' = IF res.volumes # volumes THEN res.rowid
                                ELSE lastInsertRowid
          /\ ret' = [called |-> TRUE, name |-> name, devicePath |-> devicePath,
                     before |-> volumes, after |-> res.volumes, vol |-> res.vol]
    /\ UNCHANGED <<cfg, hashing, backups, blocks, block_positions, files, run, restored, openTx>>

NextCallers ==
    \/ \E devicePath \in DevicePaths, outputFileName \in OutputFileNames,
          cfgSrc \in ByteSeqs(MaxCallerSourceSize), src \in ByteSeqs(MaxCallerSourceSize) :
            CallerBackup(devicePath, outputFileName, cfgSrc, src)
    \/ RunStep
    \/ \E id \in RestoreIDs, dir \in RestoreDirectories : RestoreRun(id, dir)

SpecCallers == Init /\ [][NextCallers]_vars

\* A caller that also uses the Store directly: backups as the command-line
\* driver makes them, and calls of InsertVolume between them.
StoreBackup(volName, src) ==
    /\ Len(backups) < MaxCallerBackups
    /\ \A b \in BackupIDs : ~InFlight(b)
    /\ NewBackup(<<1, volName>>, EmptyFileName, BackupOutputFormatFile, src, src)

NextStore ==
    \/ \E volName \in NextVolumeNames, src \in ByteSeqs(MaxCallerSourceSize) :
            StoreBackup(volName, src)
    \/ RunStep
    \/ \E devicePath \in DevicePaths, connRowid \in {0, lastInsertRowid} :
            InsertVolumeCall(devicePath[2], devicePath, connRowid)

SpecStore == Init /\ [][NextStore]_vars

\* The windows Run hands to hashBufferedData: window number iteration of up
\* to bufCapacity blocks, the last block of the source possibly short.
HashingCalls ==
    {hashBufferedDataCall(iteration, bufEntriesOf(buf, cfg.BlockSize),
                          cfg.BlockBufferSize, buf) :
        iteration \in 0..MaxIteration,
        buf \in {w \in ByteSeqs(MaxBlockSize * MaxBlockBufferSize) :
                    Len(w) <= cfg.BlockSize * cfg.BlockBufferSize}}

\* One call of hashBufferedData with its goroutines interleaved in every way
\* the scheduler allows.
InitHashing ==
    /\ cfg \in [BlockSize : 1..MaxBlockSize, BlockBufferSize : 1..MaxBlockBufferSize]
    /\ volumes = <<>>
    /\ backups = <<>>
    /\ blocks = <<>>
    /\ block_positions = {}
    /\ files = <<>>
    /\ run = <<>>
    /\ restored = NoRestore
    /\ lastInsertRowid = 0
    /\ openTx = {}
    /\ ret = NoReturn
    /\ hashing \in HashingCalls

NextHashing ==
    \/ HashSpawn
    \/ \E j \in 1..MaxBlockBufferSize : GoHash(j)
    \/ \E j \in 1..MaxBlockBufferSize : GoLock(j)
    \/ \E j \in 1..MaxBlockBufferSize : GoStore(j)
    \/ \E j \in 1..MaxBlockBufferSize : GoUnlock(j)
    \/ \E j \in 1..MaxBlockBufferSize : GoDone(j)
    \/ HashReturn

SpecHashing == InitHashing /\ [][NextHashing]_vars

\* The command-line driver on a machine where a write to the artifact can
\* fail and the process can be stopped between windows.
NextFaults ==
    \/ \E volName \in NextVolumeNames, src \in ByteSeqs(MaxCallerSourceSize) :
            StoreBackup(volName, src)
    \/ RunStep
    \/ \E b \in BackupIDs : RunWriteError(b)
    \/ \E b \in BackupIDs : RunAbort(b)

SpecFaults == Init /\ [][NextFaults]_vars

\* The command-line driver with --output-format file or stdout.
FormatBackup(volName, outputFormat, src) ==
    /\ Len(backups) < MaxCallerBackups
    /\ \A b \in BackupIDs : ~InFlight(b)
    /\ NewBackup(<<1, volName>>, EmptyFileName, outputFormat, src, src)

NextFormats ==
    \/ \E volName \in NextVolumeNames,
          outputFormat \in {BackupOutputFormatFile, BackupOutputFormatSTDOUT},
          src \in ByteSeqs(MaxCallerSourceSize) :
            FormatBackup(volName, outputFormat, src)
    \/ RunStep

SpecFormats == Init /\ [][NextFormats]_vars

\* Sources around the size of the reader's buffer: all but the last byte of a
\* buffer of zero bytes, then up to MaxLongTail bytes of any value.
LongSources ==
    {Zeros(minReadBufferSize - 1) \o tail : tail \in ByteSeqs(MaxLongTail)}

\* The command-line driver with one backup of a device longer than the
\* sources above.
LongBackup(src) ==
    /\ Len(backups) < 1
    /\ NewBackup(<<1, 1>>, EmptyFileName, BackupOutputFormatFile, src, src)

NextLongSource ==
    \/ \E src \in LongSources : LongBackup(src)
    \/ RunStep

SpecLongSource == Init /\ [][NextLongSource]_vars

(* ---------------------------------------------------------------------- *)
(* Properties                                                             *)
(* ---------------------------------------------------------------------- *)
\* Backup.Run of backup b has returned nil.
Succeeded(b) == run[b].pc = "done"

IsFull(b) == backups[b].BackupType = backupTypeFull
IsDifferential(b) == backups[b].BackupType = backupTypeDifferential

\* The restored output equals the source src on its first Len(src) bytes.
EqualsSource(out, src) == Len(out) >= Len(src) /\ SubSeq(out, 1, Len(src)) = src

\* The digest of block p of a source cut into blocks of blockSize bytes, the
\* last one possibly short.
digestAt(src, blockSize, p) == calculateBlockHash(Slice(src, p * blockSize, blockSize))

\* The positions a backup has rows for.
positionsOf(b) == {r.position : r \in findBlockPositionsByBackup(b)}

\* C1: a restore of a full backup whose run succeeded succeeds and gives back
\* the source the backup was made from, on the source's first sizeInBytes bytes.
C1_FullRoundTrip ==
    (restored.started /\ IsFull(restored.ID) /\ Succeeded(restored.ID))
        => (restored.err = "" /\ EqualsSource(restored.out, run[restored.ID].src))

\* C2: a restore of a differential backup whose run succeeded, made after the
\* successful full backup of its volume, succeeds and gives back the source of
\* the differential backup.
C2_DifferentialRoundTrip ==
    (/\ restored.started
     /\ IsDifferential(restored.ID)
     /\ Succeeded(restored.ID)
     /\ Succeeded(run[restored.ID].lastFullRecord.ID))
        => (restored.err = "" /\ EqualsSource(restored.out, run[restored.ID].src))

\* C3: after a successful run a full backup has exactly one position row for
\* every position of [0, totalBlocks) and no other row.
C3_FullCoverage ==
    \A b \in BackupIDs :
        (Succeeded(b) /\ IsFull(b))
            => /\ positionsOf(b) = 0..(backups[b].TotalBlocks - 1)
               /\ Cardinality(findBlockPositionsByBackup(b)) = backups[b].TotalBlocks

\* The digest the backup f recorded at position p, 0 when it has no row there.
recordedDigest(f, p) ==
    IF \E r \in findBlockPositionsByBackup(f) : r.position = p /\ r.block_id \in 1..Len(blocks)
    THEN blocks[(CHOOSE r \in findBlockPositionsByBackup(f) :
                    r.position = p /\ r.block_id \in 1..Len(blocks)).block_id]
    ELSE 0

\* C4: after a successful run a differential backup has rows for exactly the
\* positions of [0, totalBlocks) whose source block has a digest other than the
\* one its reference full backup recorded there (no row there counts as other).
C4_DifferentialMinimality ==
    \A b \in BackupIDs :
        (Succeeded(b) /\ IsDifferential(b) /\ Succeeded(run[b].lastFullRecord.ID))
            => positionsOf(b) =
                 {p \in 0..(backups[b].TotalBlocks - 1) :
                    digestAt(run[b].src, backups[b].BlockSize, p)
                       # recordedDigest(run[b].lastFullRecord.ID, p)}

\* The digests of all blocks of all sources backed up by a run that succeeded.
sourceDigests ==
    UNION {{digestAt(run[b].src, backups[b].BlockSize, p) :
              p \in 0..(backups[b].TotalBlocks - 1)} : b \in {x \in BackupIDs : Succeeded(x)}}

\* C5: once every run has returned, the blocks table holds one row for each
\* distinct digest of the backed-up sources, so Store.TotalBlocks() is their
\* number.
C5_Dedup ==
    (\A b \in BackupIDs : Succeeded(b))
        => /\ Range(blocks) = sourceDigests
           /\ StoreTotalBlocks = Cardinality(sourceDigests)

\* C6: a backup record is full exactly when its volume had no full backup
\* record when it was created (records are never deleted and ids grow, so
\* these are the full records of the volume with a smaller id); a differential
\* backup keeps the latest of them as its reference.
C6_BackupType ==
    \A b \in BackupIDs :
        LET earlierFulls == {f \in 1..(b - 1) :
                                backups[f].VolumeID = backups[b].VolumeID /\ IsFull(f)}
        IN /\ IsFull(b) <=> earlierFulls = {}
           /\ IsDifferential(b) <=> earlierFulls # {}
           /\ IsDifferential(b) =>
                /\ run[b].lastFullRecord.ID \in earlierFulls
                /\ \A f \in earlierFulls : f <= run[b].lastFullRecord.ID

\* C6 witness: a full backup of a second volume made while the first volume
\* already had one, and a differential backup after them.
C6_Witness ==
    /\ Len(backups) = 3
    /\ IsFull(1) /\ IsFull(2) /\ IsDifferential(3)
    /\ run[3].lastFullRecord.ID = 2

\* The bytes run b added to its artifact in the step, and their digests block
\* by block.
bytesWritten(b) ==
    IF run'[b].off > run[b].off
    THEN SubSeq(files'[backups[b].FullPath], run[b].off + 1, run'[b].off)
    ELSE <<>>

digestsWritten(b) ==
    {calculateBlockHash(Slice(bytesWritten(b), i * cfg.BlockSize, cfg.BlockSize)) :
        i \in 0..((Len(bytesWritten(b)) \div cfg.BlockSize) - 1)}

\* C7: in every step of a run, what the run writes to its artifact is whole
\* blocks, none of a digest the blocks table already holds and no digest
\* twice, and the digests the step adds to the blocks table are exactly the
\* digests it writes. As the table never loses a row, no run writes a stored
\* digest, and a digest new to the store is written once, by the run that
\* stores it.
C7_GlobalDedupOfPayloads ==
    [][/\ \A b \in BackupIDs :
            /\ Len(bytesWritten(b)) % cfg.BlockSize = 0
            /\ digestsWritten(b) \cap Range(blocks) = {}
            /\ Cardinality(digestsWritten(b)) = Len(bytesWritten(b)) \div cfg.BlockSize
            /\ bytesWritten(b) # <<>> => Range(blocks') \ Range(blocks) = digestsWritten(b)
       /\ Range(blocks) \subseteq Range(blocks')
       /\ Range(blocks') # Range(blocks) => \E b \in BackupIDs : bytesWritten(b) # <<>>
      ]_vars

\* C7 witness: a successful full backup of a second volume that refers to two
\* blocks and wrote one payload: the other digest was in the store already.
C7_Witness ==
    \E b \in BackupIDs :
        /\ b > 1
        /\ Succeeded(b)
        /\ IsFull(b)
        /\ UniqueBlocksInBackup(b) = 2
        /\ Len(files[backups[b].FullPath]) = cfg.BlockSize

\* The digests of the blocks a backup's rows refer to.
digestsOf(b) ==
    {blocks[r.block_id] : r \in {q \in findBlockPositionsByBackup(b) : q.block_id \in 1..Len(blocks)}}

\* C8: after a successful run the artifact of a backup holds exactly
\* U = COUNT(DISTINCT block_id) payloads, one for each block the backup refers to.
C8_ArtifactPayloadCount ==
    \A b \in BackupIDs :
        Succeeded(b) =>
            LET artifact == files[backups[b].FullPath]
                U == UniqueBlocksInBackup(b)
            IN /\ Len(artifact) = U * backups[b].BlockSize
               /\ {calculateBlockHash(Slice(artifact, i * backups[b].BlockSize, backups[b].BlockSize)) :
                      i \in 0..(U - 1)} = digestsOf(b)

\* C9: no run returns an error for inserting a digest another run stored in
\* the meantime: every run that has returned has succeeded, and the blocks
\* table has one row per digest.
C9_ConcurrentDuplicateDigest ==
    /\ \A b \in BackupIDs : run[b].pc # "failed"
    /\ Cardinality(Range(blocks)) = Len(blocks)

\* C10: after a successful run the size_in_bytes of the backup's row is the
\* length of its artifact.
C10_Finalization ==
    \A b \in BackupIDs :
        Succeeded(b) => backups[b].SizeInBytes = Len(files[backups[b].FullPath])

\* C11: the device path a run opens, that of the volume NewBackup resolved, is
\* the cfg.DevicePath the backup was created with, also when the volume's row
\* was stored with another path; and no name has two volume rows.
C11_SourcePath ==
    /\ \A b \in BackupIDs : run[b].vol.DevicePath = run[b].DevicePath
    /\ \A i, j \in 1..Len(volumes) : volumes[i].Name = volumes[j].Name => i = j

\* C12: InsertVolume(name, path) for a name that has a row returns that row,
\* with its id and its stored device path, and leaves the table as it was;
\* for a new name it adds one row and returns it.
C12_InsertVolumeIdempotent ==
    ret.called =>
        LET existing == {i \in 1..Len(ret.before) : ret.before[i].Name = ret.name}
        IN IF existing # {}
           THEN /\ ret.after = ret.before
                /\ \E i \in existing : ret.vol = ret.before[i]
           ELSE /\ ret.vol = [ID |-> Len(ret.before) + 1, Name |-> ret.name,
                              DevicePath |-> ret.devicePath]
                /\ ret.after = Append(ret.before, ret.vol)

\* C13: after a successful full backup of a source whose size is not a
\* multiple of blockSize, the last position is recorded with the digest of the
\* short final block, taken over its short bytes alone, and a successful
\* restore of the backup has exactly those bytes at lastPosition * blockSize.
C13_ShortFinalBlock ==
    \A b \in BackupIDs :
        (Succeeded(b) /\ IsFull(b) /\ Len(run[b].src) % backups[b].BlockSize # 0)
            => LET last == backups[b].TotalBlocks - 1
                   short == Slice(run[b].src, last * backups[b].BlockSize, backups[b].BlockSize)
               IN /\ recordedDigest(b, last) = calculateBlockHash(short)
                  /\ (restored.started /\ restored.ID = b /\ restored.err = "")
                        => Slice(restored.out, last * backups[b].BlockSize,
                                 backups[b].BlockSize) = short

\* C14: a run that returned an error from writeBlocks or from
\* insertBlockPositionsTransaction holds no transaction that was begun and
\* neither committed nor rolled back.
C14_RollbackOnError ==
    \A b \in BackupIDs : run[b].pc = "failed" => b \notin openTx

\* C15: a restore that read from an artifact a payload whose digest the backup
\* being replayed has no position row for returns an error.
C15_RestoreIntegrityError ==
    (restored.started /\ restored.skipped) => restored.err # ""

\* C16: NewRestore for an id that has no backup row, for a differential backup
\* whose volume has no full backup, or with a non-empty output directory that
\* does not exist, returns an error: Run does not start and no output file is
\* made.
C16_RestoreConstructionErrors ==
    (/\ restored.asked
     /\ \/ restored.ID \notin BackupIDs
        \/ restored.dir # "" /\ restored.dir \notin ExistingDirectories
        \/ /\ restored.ID \in BackupIDs
           /\ IsDifferential(restored.ID)
           /\ findLastFullBackupRecord(backups[restored.ID].VolumeID) = BackupRecordZero)
        => (restored.err # "" /\ ~restored.started /\ restored.out = <<>>)

\* C16 witness: a restore was asked of an id above those of the two backups in
\* the store, into no particular directory.
C16_Witness ==
    /\ restored.asked
    /\ Len(backups) = 2
    /\ restored.ID = 3
    /\ restored.dir = ""
    /\ restored.err = "error resolving backup record"

\* The least number of blocks of blockSize bytes that hold sizeInBytes bytes.
ceilDiv(sizeInBytes, blockSize) ==
    CHOOSE n \in 0..sizeInBytes : n * blockSize >= sizeInBytes /\ (n - 1) * blockSize < sizeInBytes

\* C17: the record NewBackup makes for a source of s bytes and block size b has
\* totalBlocks = ceil(s / b), blockSize = b and sizeInBytes = s, and the store
\* gives these three values back for the backup when it is looked up later.
C17_TotalBlockCount ==
    \A b \in BackupIDs :
        LET s == Len(run[b].src)
        IN /\ backups[b].TotalBlocks = ceilDiv(s, cfg.BlockSize)
           /\ backups[b].BlockSize = cfg.BlockSize
           /\ backups[b].SizeInBytes = s
           /\ findBackup(b).TotalBlocks = ceilDiv(s, cfg.BlockSize)
           /\ findBackup(b).BlockSize = cfg.BlockSize
           /\ findBackup(b).SizeInBytes = s

\* The positions of the window run b holds at which digest d occurs.
windowPositions(b, d) == {p \in DOMAIN run[b].hashMap : run[b].hashMap[p] = d}

\* C18: for a digest that occurs at N >= 2 positions of a window: when it is
\* new to the store, the step of writeBlocks gives it one blocks row and adds
\* its payload to the artifact once; and in a full backup the step of
\* insertBlockPositionsTransaction adds N rows, one for each of those
\* positions, all with the id of that one blocks row.
C18_RepeatedDigestInWindow ==
    [][\A b \in BackupIDs : \A d \in Range(run[b].hashMap) :
          Cardinality(windowPositions(b, d)) >= 2 =>
            /\ (run[b].pc = "insert" /\ run'[b].pc = "positions" /\ d \notin Range(blocks))
                  => /\ Cardinality({i \in 1..Len(blocks') : blocks'[i] = d}) = 1
                     /\ Cardinality({i \in 0..((Len(bytesWritten(b)) \div cfg.BlockSize) - 1) :
                            calculateBlockHash(Slice(bytesWritten(b), i * cfg.BlockSize,
                                                     cfg.BlockSize)) = d}) = 1
            /\ (run[b].pc = "positions" /\ run'[b].pc = "loop" /\ IsFull(b))
                  => LET added == {r \in block_positions' \ block_positions :
                                     r.backup_id = b /\ r.position \in windowPositions(b, d)}
                     IN /\ {r.position : r \in added} = windowPositions(b, d)
                        /\ Cardinality(added) = Cardinality(windowPositions(b, d))
                        /\ \A r \in added : r.block_id = blockIDOf(d) /\ r.block_id # 0
      ]_vars

\* C18 witness: the first backup, into an empty store, with a window of two
\* blocks: both positions are recorded with the same block id and the artifact
\* holds one payload.
C18_Witness ==
    /\ Len(backups) >= 1
    /\ Succeeded(1)
    /\ cfg.BlockBufferSize = 2
    /\ \E r1, r2 \in findBlockPositionsByBackup(1) :
          r1.position = 0 /\ r2.position = 1 /\ r1.block_id = r2.block_id
    /\ Len(files[backups[1].FullPath]) = cfg.BlockSize
    /\ StoreTotalBlocks = 1

\* The payloads of the digests of run b's window that the store does not hold,
\* in ascending order of the lowest position each has in the window.
payloadsByLowestPosition(b) ==
    LET new == Range(run[b].hashMap) \ Range(blocks)
        lowest(d) == CHOOSE p \in windowPositions(b, d) : \A q \in windowPositions(b, d) : p <= q
    IN payloadBuf(SortInts({lowest(d) : d \in new}), run[b].blockBuf, cfg.BlockSize,
                  run[b].iteration, cfg.BlockBufferSize)

\* C19: what a step of writeBlocks adds to the artifact is the payloads of the
\* window's new digests in ascending order of the lowest position of each, so
\* that the artifact is a function of the source, the configuration and the
\* store.
C19_DeterministicPayloadOrder ==
    [][\A b \in BackupIDs :
          (run[b].pc = "insert" /\ run'[b].pc = "positions")
              => bytesWritten(b) = payloadsByLowestPosition(b)
      ]_vars

\* C20: the payloads a step of writeBlocks adds to the artifact are in the
\* order of the block ids the step's insert assigned: payload i has the digest
\* of the i-th row added to the blocks table.
C20_ArtifactOrderVersusBlockIDs ==
    [][\A b \in BackupIDs :
          (run[b].pc = "insert" /\ run'[b].pc = "positions")
              => \A i \in 0..((Len(bytesWritten(b)) \div cfg.BlockSize) - 1) :
                    /\ Len(blocks) + i + 1 <= Len(blocks')
                    /\ calculateBlockHash(Slice(bytesWritten(b), i * cfg.BlockSize,
                                                cfg.BlockSize)) = blocks'[Len(blocks) + i + 1]
      ]_vars


\* C21: Restore.Run of a differential backup D with base F replays F to its
\* end and D after it: once the run has returned, every position with a row
\* in D holds the block that row refers to, and every other position holds
\* what the replay of F left there.
C21_RestoreLayeringOrder ==
    (restored.started /\ IsDifferential(restored.ID)) =>
        LET D == restored.ID
            bs == backups[D].BlockSize
            positions == 0..(Max(Len(restored.out), Len(restored.base)) \div bs)
        IN /\ \A r \in block_positions :
                (r.backup_id = D /\ r.block_id \in 1..Len(blocks)) =>
                    calculateBlockHash(Slice(restored.out, r.position * bs, bs))
                        = blocks[r.block_id]
           /\ \A p \in positions \ positionsOf(D) :
                Slice(restored.out, p * bs, bs) = Slice(restored.base, p * bs, bs)
           /\ Len(restored.out) >= Len(restored.base)

C23_PositionToDigest ==
    \A r \in block_positions :
        r.block_id \in 1..Len(blocks) /\
        blocks[r.block_id] =
            digestAt(run[r.backup_id].src, backups[r.backup_id].BlockSize, r.position)

\* What C24 says of one step, for the run of backup b.
windowStep(b) ==
    /\ run'[b].iteration \in {run[b].iteration, run[b].iteration + 1}
    /\ run'[b].iteration <= ceilDiv(backups[b].TotalBlocks, cfg.BlockBufferSize)
    /\ run'[b].rd # run[b].rd =>
            /\ run[b].pc = "loop"
            /\ run[b].hashMap = <<>>
            /\ run[b].insertablePositions = <<>>
    /\ (run[b].pc = "loop" /\ run[b].iteration > 0 /\ run[b].n = 0) => ~MoreWindows(b)

\* C24: Run goes through the windows 0, 1, 2, ... in ascending order, reads a
\* window only when the block insert, artifact write and position insert of
\* the one before are done, ends after at most ceil(totalBlocks /
\* blockBufferSize) windows, and ends the loop when a read returns zero bytes.
C24_WindowOrderAndTermination ==
    [][\A b \in BackupIDs : windowStep(b)]_vars

\* The positions of the window run b holds that insertBlockPositionsTransaction
\* does not skip: all of them in a full backup; in a differential one those
\* whose digest differs from the one the last full backup recorded there.
nonSkippedPositions(b) ==
    {p \in DOMAIN run[b].hashMap :
        ~(IsDifferential(b) /\
          recordedDigest(run[b].lastFullRecord.ID, p) = run[b].hashMap[p])}

C26_EarlierArtifactsUnmodified ==
    [][\A path \in DOMAIN files :
        /\ path \in DOMAIN files'
        /\ Len(files'[path]) >= Len(files[path])
        /\ SubSeq(files'[path], 1, Len(files[path])) = files[path]]_vars

\* C27: in every state of the store every row of block_positions refers to a
\* row of backups and to a row of blocks: block_id is never 0 or an id
\* without a row.
C27_ReferentialIntegrity ==
    \A r \in block_positions :
        /\ r.backup_id \in BackupIDs
        /\ backups[r.backup_id].ID = r.backup_id
        /\ r.block_id \in 1..Len(blocks)
        /\ r.block_id # 0

\* C27 witness: the second backup has a row for a block the first backup
\* stored and a row for a block of its own window's insert.
C27_Witness ==
    \E r, q, n \in block_positions :
        /\ q.backup_id = 1 /\ r.backup_id = 2 /\ n.backup_id = 2
        /\ r.block_id = q.block_id
        /\ \A o \in block_positions : o.backup_id = 1 => o.block_id # n.block_id

\* The digests whose payload some artifact holds, at a block boundary.
storedPayloads ==
    UNION {{calculateBlockHash(Slice(files[path], k * cfg.BlockSize, cfg.BlockSize)) :
                k \in 0..((Len(files[path]) \div cfg.BlockSize) - 1)} :
           path \in DOMAIN files}

\* C28: whatever runs there were, also runs that returned an error from the
\* artifact write or were stopped between windows, every digest in the blocks
\* table has its payload in some backup artifact.
C28_PayloadAvailability ==
    \A i \in 1..Len(blocks) : blocks[i] \in storedPayloads

\* C29: with the backups of a volume made one at a time the volume has at
\* most one full backup, and for every differential backup NewRestore loads
\* as its base the record the backup was compared against when it was made.
C29_SingleFullStableBase ==
    /\ \A v \in 1..Len(volumes) :
          Cardinality({b \in BackupIDs : backups[b].VolumeID = v /\ IsFull(b)}) <= 1
    /\ \A b \in BackupIDs :
          IsDifferential(b) =>
              /\ NewRestore(b, "").err = ""
              /\ NewRestore(b, "").lastFullBackup = run[b].lastFullRecord
              /\ IsFull(run[b].lastFullRecord.ID)
              /\ backups[run[b].lastFullRecord.ID].VolumeID = backups[b].VolumeID

\* C29 witness: a restore of a differential backup of the first volume has
\* run after a full backup of a second volume was made.
C29_Witness ==
    /\ restored.started
    /\ restored.ID = 2
    /\ IsDifferential(2)
    /\ Len(backups) = 3
    /\ IsFull(3)
    /\ run[2].lastFullRecord.ID = 1

\* C30: a run of a backup whose output format is stdout creates no file at
\* the record's FullPath and, when it has returned, has returned nil: it does
\* not need a file at FullPath.
C30_StdoutBackup ==
    \A b \in BackupIDs :
        run[b].OutputFormat = BackupOutputFormatSTDOUT =>
            /\ backups[b].FullPath \notin DOMAIN files
            /\ ~InFlight(b) => Succeeded(b)
====
